---- MODULE Spec2Model ----
(***************************************************************************)
(* Model of scrobbles-to-lb-import.py: a Last.fm scrobbles export (JSON)   *)
(* is flattened into track objects, each track object is converted into a  *)
(* ListenBrainz listen or skipped, the listens are written as JSONL, and   *)
(* the JSONL file is packaged into a ZIP archive.                          *)
(*                                                                         *)
(* A parsed JSON value is a record tagged by its Python type in field t:   *)
(*   None, bool, int, float, str, list, dict.                              *)
(* A str is a sequence of one-character strings.  A float is finite (held  *)
(* in tenths), inf, -inf or nan.  A dict is a function over Keys whose     *)
(* absent keys map to Absent.  File contents are sequences of tokens whose *)
(* concatenation is the text of the file; the newline is always a token of *)
(* its own.                                                                *)
(***************************************************************************)
EXTENDS Integers, Sequences, FiniteSets, TLC

VARIABLES
    input_file,     \* file at INPUT_FILE: missing, invalid JSON, or a payload
    jsonl_file,     \* file at OUTPUT_JSONL
    zip_file,       \* file at OUTPUT_ZIP
    jsonl_writable, \* whether OUTPUT_JSONL can be opened for writing
    zip_writable,   \* whether OUTPUT_ZIP can be opened for writing
    pc,             \* position of main
    written,        \* value returned by write_listens_jsonl in this run
    stdout,         \* lines printed by this run
    error,          \* exception that ended this run, or "none"
    runs,           \* number of runs of main started
    zip_calls,      \* invocations of make_import_zip in this run
    run_start,      \* files as they were when this run started
    prev_run,       \* input and JSONL output of the previous finished run
    track_obj,      \* argument of track_to_listen
    result,         \* outcome of track_to_listen(track_obj)
    payload,        \* argument of flatten_tracks
    flat            \* outcome of flatten_tracks(payload)

vars == <<input_file, jsonl_file, zip_file, jsonl_writable, zip_writable, pc,
          written, stdout, error, runs, zip_calls, run_start, prev_run,
          track_obj, result, payload, flat>>

mainVars == <<input_file, jsonl_file, zip_file, jsonl_writable, zip_writable,
              pc, written, stdout, error, runs, zip_calls, run_start, prev_run>>

----------------------------------------------------------------------------
(* Python values *)

Keys == {"recenttracks", "track", "@attr", "nowplaying", "date", "uts",
         "name", "artist", "album", "#text"}

\* order in which the keys of a parsed object were inserted
KeyOrder == <<"recenttracks", "track", "@attr", "nowplaying", "date", "uts",
              "name", "artist", "album", "#text">>

Absent == [t |-> "absent"]
None == [t |-> "None"]
PyBool(b) == [t |-> "bool", b |-> b]
PyInt(n) == [t |-> "int", n |-> n]
PyFloat(tenths) == [t |-> "float", k |-> "fin", tenths |-> tenths]
PyInf == [t |-> "float", k |-> "inf", tenths |-> 0]
PyNegInf == [t |-> "float", k |-> "-inf", tenths |-> 0]
PyNaN == [t |-> "float", k |-> "nan", tenths |-> 0]
PyStr(s) == [t |-> "str", s |-> s]
PyList(xs) == [t |-> "list", xs |-> xs]
PyDict(f) == [t |-> "dict",
              m |-> [k \in Keys |-> IF k \in DOMAIN f THEN f[k] ELSE Absent]]

isinstance(value, type) == value.t = type

\* key in d
HasKey(d, key) == d.m[key] # Absent

\* d.get(key)
DictGet(d, key) == IF HasKey(d, key) THEN d.m[key] ELSE None

\* d[key], used only where the key is known to be present
DictItem(d, key) == d.m[key]

Digits == <<"0", "1", "2", "3", "4", "5", "6", "7", "8", "9">>

IsDigit(c) == \E i \in 1..10 : Digits[i] = c

DigitVal(c) == (CHOOSE i \in 1..10 : Digits[i] = c) - 1

Whitespace == {" ", "\n"}

\* a lone surrogate code point, as parsed from the JSON escape \ud800
Surrogate == "\\ud800"

Abs(n) == IF n < 0 THEN 0 - n ELSE n

RECURSIVE NatDigits(_)
NatDigits(n) == IF n < 10 THEN <<Digits[n + 1]>>
                ELSE NatDigits(n \div 10) \o <<Digits[(n % 10) + 1]>>

\* str(n) for an int
IntText(n) == IF n < 0 THEN <<"-">> \o NatDigits(0 - n) ELSE NatDigits(n)

\* str(x) for a float
FloatText(x) ==
    CASE x.k = "inf" -> <<"i", "n", "f">>
      [] x.k = "-inf" -> <<"-", "i", "n", "f">>
      [] x.k = "nan" -> <<"n", "a", "n">>
      [] OTHER -> (IF x.tenths < 0 THEN <<"-">> ELSE <<>>)
                  \o NatDigits(Abs(x.tenths) \div 10)
                  \o <<".", Digits[(Abs(x.tenths) % 10) + 1]>>

\* repr(s) for a str without single quotes
RECURSIVE ReprChars(_)
ReprChars(s) ==
    IF s = <<>> THEN <<>>
    ELSE (CASE Head(s) = "\\" -> <<"\\", "\\">>
            [] Head(s) = "\n" -> <<"\\", "n">>
            [] Head(s) = Surrogate -> <<"\\", "u", "d", "8", "0", "0">>
            [] OTHER -> <<Head(s)>>) \o ReprChars(Tail(s))

RECURSIVE repr(_)
RECURSIVE ReprItems(_)
RECURSIVE ReprEntries(_, _, _)

ReprItems(xs) ==
    IF xs = <<>> THEN <<>>
    ELSE IF Len(xs) = 1 THEN repr(xs[1])
    ELSE repr(Head(xs)) \o <<",", " ">> \o ReprItems(Tail(xs))

ReprEntries(d, i, first) ==
    IF i > Len(KeyOrder) THEN <<>>
    ELSE IF ~HasKey(d, KeyOrder[i]) THEN ReprEntries(d, i + 1, first)
    ELSE (IF first THEN <<>> ELSE <<",", " ">>)
         \o <<"'", KeyOrder[i], "'", ":", " ">> \o repr(d.m[KeyOrder[i]])
         \o ReprEntries(d, i + 1, FALSE)

repr(value) ==
    CASE value.t = "None" -> <<"N", "o", "n", "e">>
      [] value.t = "bool" -> IF value.b THEN <<"T", "r", "u", "e">>
                             ELSE <<"F", "a", "l", "s", "e">>
      [] value.t = "int" -> IntText(value.n)
      [] value.t = "float" -> FloatText(value)
      [] value.t = "str" -> <<"'">> \o ReprChars(value.s) \o <<"'">>
      [] value.t = "list" -> <<"[">> \o ReprItems(value.xs) \o <<"]">>
      [] value.t = "dict" -> <<"{">> \o ReprEntries(value, 1, TRUE) \o <<"}">>

\* str(value)
str(value) == IF value.t = "str" THEN value ELSE PyStr(repr(value))

\* truth value of an Optional[str]
Truthy(value) == value # None /\ value.s # <<>>

----------------------------------------------------------------------------
(* int(value) *)

RECURSIVE StripLeft(_)
StripLeft(s) == IF s # <<>> /\ Head(s) \in Whitespace THEN StripLeft(Tail(s))
                ELSE s

RECURSIVE StripRight(_)
StripRight(s) == IF s # <<>> /\ s[Len(s)] \in Whitespace
                 THEN StripRight(SubSeq(s, 1, Len(s) - 1))
                 ELSE s

Strip(s) == StripRight(StripLeft(s))

\* digits, with single underscores allowed between digits
IsIntBody(b) ==
    /\ b # <<>>
    /\ IsDigit(b[1])
    /\ IsDigit(b[Len(b)])
    /\ \A i \in 1..Len(b) : IsDigit(b[i]) \/ b[i] = "_"
    /\ \A i \in 1..(Len(b) - 1) : ~(b[i] = "_" /\ b[i + 1] = "_")

RECURSIVE BodyVal(_, _)
BodyVal(b, acc) ==
    IF b = <<>> THEN acc
    ELSE IF Head(b) = "_" THEN BodyVal(Tail(b), acc)
    ELSE BodyVal(Tail(b), 10 * acc + DigitVal(Head(b)))

Returned(v) == [ok |-> TRUE, v |-> v]
Raised(exc) == [ok |-> FALSE, exc |-> exc]

IntOfText(s) ==
    LET c == Strip(s)
        signed == c # <<>> /\ Head(c) \in {"+", "-"}
        body == IF signed THEN Tail(c) ELSE c
    IN  IF ~IsIntBody(body) THEN Raised("ValueError")
        ELSE IF signed /\ Head(c) = "-" THEN Returned(0 - BodyVal(body, 0))
        ELSE Returned(BodyVal(body, 0))

\* truncation toward zero
Trunc(tenths) == IF tenths < 0 THEN 0 - ((0 - tenths) \div 10)
                 ELSE tenths \div 10

int(value) ==
    CASE value.t = "int" -> Returned(value.n)
      [] value.t = "bool" -> Returned(IF value.b THEN 1 ELSE 0)
      [] value.t = "str" -> IntOfText(value.s)
      [] value.t = "float" ->
            IF value.k = "nan" THEN Raised("ValueError")
            ELSE IF value.k \in {"inf", "-inf"} THEN Raised("OverflowError")
            ELSE Returned(Trunc(value.tenths))
      [] OTHER -> Raised("TypeError")

----------------------------------------------------------------------------
(* get_text, _ensure_list, flatten_tracks *)

get_text(value) ==
    IF value = None THEN None
    ELSE IF isinstance(value, "str") THEN value
    ELSE IF isinstance(value, "dict") THEN
        LET inner == DictGet(value, "#text")
        IN  IF inner = None \/ isinstance(inner, "str") THEN inner
            ELSE str(inner)
    ELSE str(value)

\* faulty variant: a value that is not a list is dropped instead of wrapped
_ensure_list_unwrapped(value) ==
    IF isinstance(value, "list") THEN value.xs ELSE <<>>

_ensure_list(value) ==
    IF value = None THEN <<>>
    ELSE IF isinstance(value, "list") THEN value.xs
    ELSE <<value>>

RECURSIVE FlattenOneLevel(_)
FlattenOneLevel(xs) ==
    IF xs = <<>> THEN <<>>
    ELSE (IF isinstance(Head(xs), "list") THEN Head(xs).xs ELSE <<Head(xs)>>)
         \o FlattenOneLevel(Tail(xs))

RECURSIVE OnlyDicts(_)
OnlyDicts(items) ==
    IF items = <<>> THEN <<>>
    ELSE (IF isinstance(Head(items), "dict") THEN <<Head(items)>> ELSE <<>>)
         \o OnlyDicts(Tail(items))

flatten_tracks(p) ==
    LET items ==
            IF isinstance(p, "list") THEN FlattenOneLevel(p.xs)
            ELSE IF isinstance(p, "dict") THEN
                IF isinstance(DictGet(p, "recenttracks"), "dict")
                THEN _ensure_list(DictGet(DictItem(p, "recenttracks"), "track"))
                ELSE IF HasKey(p, "track")
                THEN _ensure_list(DictGet(p, "track"))
                ELSE <<p>>
            ELSE <<>>
    IN  OnlyDicts(items)

----------------------------------------------------------------------------
(* track_to_listen *)

TextTrue == <<"t", "r", "u", "e">>

Skip == [k |-> "skip"]
Raise(exc) == [k |-> "raise", exc |-> exc]
Listen(l) == [k |-> "listen", listen |-> l]

\* faulty variant: the flag is compared with the boolean, not with the text
IsNowPlayingBoolean(attr) ==
    isinstance(attr, "dict") /\ DictGet(attr, "nowplaying") = PyBool(TRUE)

\* isinstance(attr, dict) and attr.get("nowplaying") == "true"
IsNowPlaying(attr) ==
    isinstance(attr, "dict") /\ DictGet(attr, "nowplaying") = PyStr(TextTrue)

\* faulty variant: except TypeError
CaughtTypeError(exc) == exc = "TypeError"

\* except (TypeError, ValueError)
Caught(exc) == exc \in {"TypeError", "ValueError"}

\* faulty variant: if album_name is not None
MakeListenNotNone(listened_at, track_name, artist_name, album_name) ==
    IF album_name # None
    THEN [listened_at |-> listened_at,
          track_metadata |-> [track_name |-> track_name.s,
                              artist_name |-> artist_name.s,
                              release_name |-> album_name.s]]
    ELSE [listened_at |-> listened_at,
          track_metadata |-> [track_name |-> track_name.s,
                              artist_name |-> artist_name.s]]

\* the listen dict, with release_name only for a non-empty album name
MakeListen(listened_at, track_name, artist_name, album_name) ==
    IF Truthy(album_name)
    THEN [listened_at |-> listened_at,
          track_metadata |-> [track_name |-> track_name.s,
                              artist_name |-> artist_name.s,
                              release_name |-> album_name.s]]
    ELSE [listened_at |-> listened_at,
          track_metadata |-> [track_name |-> track_name.s,
                              artist_name |-> artist_name.s]]

track_to_listen(t) ==
    LET attr == DictGet(t, "@attr")
        date == DictGet(t, "date")
    IN
    IF IsNowPlaying(attr) THEN Skip
    ELSE IF ~isinstance(date, "dict") \/ ~HasKey(date, "uts") THEN Skip
    ELSE
    LET listened_at == int(DictItem(date, "uts")) IN
    IF ~listened_at.ok THEN
        IF Caught(listened_at.exc) THEN Skip ELSE Raise(listened_at.exc)
    ELSE
    LET track_name == get_text(DictGet(t, "name"))
        artist_name == get_text(DictGet(t, "artist"))
        album_name == get_text(DictGet(t, "album"))
    IN
    IF ~Truthy(track_name) \/ ~Truthy(artist_name) THEN Skip
    ELSE Listen(MakeListen(listened_at.v, track_name, artist_name,
                           album_name))

----------------------------------------------------------------------------
(* json.dumps(listen, ensure_ascii=False) *)

RECURSIVE JsonChars(_)
JsonChars(s) ==
    IF s = <<>> THEN <<>>
    ELSE (CASE Head(s) = "\"" -> <<"\\", "\"">>
            [] Head(s) = "\\" -> <<"\\", "\\">>
            [] Head(s) = "\n" -> <<"\\", "n">>
            [] OTHER -> <<Head(s)>>) \o JsonChars(Tail(s))

JsonString(s) == <<"\"">> \o JsonChars(s) \o <<"\"">>

\* the keys are written in the order in which track_to_listen inserted them
dumps(listen) ==
    <<"{", "\"listened_at\"", ": ">> \o IntText(listen.listened_at)
    \o <<", ", "\"track_metadata\"", ": ", "{", "\"track_name\"", ": ">>
    \o JsonString(listen.track_metadata.track_name)
    \o <<", ", "\"artist_name\"", ": ">>
    \o JsonString(listen.track_metadata.artist_name)
    \o (IF "release_name" \in DOMAIN listen.track_metadata
        THEN <<", ", "\"release_name\"", ": ">>
             \o JsonString(listen.track_metadata.release_name)
        ELSE <<>>)
    \o <<"}", "}">>

\* whether text can be encoded by the utf-8 codec of the output handle
Utf8Encodable(text) == \A i \in 1..Len(text) : text[i] # Surrogate

----------------------------------------------------------------------------
(* write_listens_jsonl, make_import_zip *)

NoFile == [exists |-> FALSE, data |-> <<>>]
File(data) == [exists |-> TRUE, data |-> data]

NoArchive == [exists |-> FALSE, entries |-> <<>>]

\* faulty variant: the file is opened in mode "a"
OpenForAppending(old) == old

\* content of a file just opened in mode "w"
OpenForWriting(old) == <<>>

\* for t in tracks: convert, write the line, count it
RECURSIVE WriteLoop(_, _, _)
WriteLoop(tracks, out, n) ==
    IF tracks = <<>> THEN [out |-> out, written |-> n, exc |-> "none"]
    ELSE
    LET listen == track_to_listen(Head(tracks)) IN
    IF listen.k = "raise"
    THEN [out |-> out, written |-> n, exc |-> listen.exc]
    ELSE IF listen = Skip THEN WriteLoop(Tail(tracks), out, n)
    ELSE
    LET line == dumps(listen.listen) \o <<"\n">> IN
    IF ~Utf8Encodable(line)
    THEN [out |-> out, written |-> n, exc |-> "UnicodeEncodeError"]
    ELSE WriteLoop(Tail(tracks), out \o line, n + 1)

\* the output file is closed, and so flushed, on every exit from the with block
write_listens_jsonl(inp, old, writable) ==
    IF inp.k = "missing"
    THEN [file |-> old, written |-> 0, exc |-> "FileNotFoundError"]
    ELSE IF inp.k = "invalid"
    THEN [file |-> old, written |-> 0, exc |-> "JSONDecodeError"]
    ELSE IF ~writable
    THEN [file |-> old, written |-> 0, exc |-> "PermissionError"]
    ELSE
    LET r == WriteLoop(flatten_tracks(inp.raw), OpenForWriting(old.data), 0)
    IN  [file |-> File(r.out), written |-> r.written, exc |-> r.exc]

\* faulty variant: ZipFile(zip_path, "a")
ZipOpenAppending(old) == old

\* the archive entries already present after ZipFile(zip_path, "w")
ZipOpen(old) == <<>>

\* name of the archive entry
arcname == "listens.jsonl"

\* the stored stream is the deflate stream of the data; inflating it is the
\* inverse that zlib provides
Deflate(data) == [method |-> "ZIP_DEFLATED", inflated |-> data]
Inflate(stream) == stream.inflated

make_import_zip(jsonl, old) ==
    [exists |-> TRUE,
     entries |-> ZipOpen(old.entries)
                 \o <<[arcname |-> arcname, stream |-> Deflate(jsonl.data)]>>]

\* faulty variant: main swallows the exception of write_listens_jsonl
AfterWriteSwallowed(exc) == "zip"

\* where main goes after write_listens_jsonl returned or raised
AfterWrite(exc) == IF exc = "none" THEN "zip" ELSE "failed"

----------------------------------------------------------------------------
(* inputs *)

MaxRuns == 2

UtsValues ==
    { PyStr(<<"1", "0", "0", "0">>), PyStr(<<"a", "b", "c">>), PyStr(<<>>),
      PyStr(<<" ", "7", "\n">>), PyStr(<<"-", "5">>),
      PyStr(<<"1", "_", "0">>), PyStr(<<"_", "1">>), PyStr(<<"1", ".", "5">>),
      None, PyBool(TRUE), PyInt(42), PyFloat(0 - 19), PyInf, PyNegInf, PyNaN,
      PyList(<<PyInt(1)>>), PyDict(<<>>) }

AttrValues ==
    { Absent, PyStr(TextTrue),
      PyDict("nowplaying" :> PyStr(TextTrue)),
      PyDict("nowplaying" :> PyBool(TRUE)),
      PyDict("nowplaying" :> PyStr(<<"f", "a", "l", "s", "e">>)) }

DateValues ==
    { Absent, None, PyStr(<<"1", "0", "0", "0">>), PyDict(<<>>) }
    \cup { PyDict("uts" :> u) : u \in UtsValues }

\* values from which get_text extracts neither None nor the empty string
NamedValues ==
    { PyStr(<<"S", "o", "n", "g", " ", "A">>),
      PyStr(<<"a", "\"", "\\", "\n">>),
      PyStr(<<Surrogate>>),
      PyDict("#text" :> PyStr(<<"b">>)),
      PyDict("#text" :> PyInt(7)),
      PyBool(FALSE), PyFloat(15),
      PyList(<<PyStr(<<"a", "\n">>), PyInt(1), None,
               PyDict("name" :> PyNaN)>>) }

\* values from which get_text extracts None or the empty string
UnnamedValues ==
    { Absent, None, PyStr(<<>>), PyDict(<<>>),
      PyDict("#text" :> None), PyDict("#text" :> PyStr(<<>>)) }

NameValues == NamedValues \cup UnnamedValues

ArtistValues ==
    { PyStr(<<"A", "r", "t", "i", "s", "t", " ", "A">>),
      PyDict("#text" :> PyList(<<>>)), PyInt(0 - 3) }
    \cup UnnamedValues

AlbumValues ==
    { Absent, None, PyStr(<<>>), PyStr(<<"c">>),
      PyDict("#text" :> PyStr(<<"A", "l", "b", "u", "m", " ", "A">>)),
      PyInt(0) }

Track(attr, date, name, artist, album) ==
    [t |-> "dict",
     m |-> [k \in Keys |-> CASE k = "@attr" -> attr
                             [] k = "date" -> date
                             [] k = "name" -> name
                             [] k = "artist" -> artist
                             [] k = "album" -> album
                             [] OTHER -> Absent]]

TrackObjs ==
    { Track(attr, date, name, artist, album) :
        attr \in AttrValues, date \in DateValues, name \in NameValues,
        artist \in ArtistValues, album \in AlbumValues }

----------------------------------------------------------------------------
(* the record converter applied to one track object *)

Pending == [k |-> "pending"]

MainIdle ==
    /\ input_file = [k |-> "missing"]
    /\ jsonl_file = NoFile
    /\ zip_file = NoArchive
    /\ jsonl_writable = TRUE
    /\ zip_writable = TRUE
    /\ pc = "idle"
    /\ written = <<>>
    /\ stdout = <<>>
    /\ error = "none"
    /\ runs = 0
    /\ zip_calls = 0
    /\ run_start = [jsonl |-> NoFile, zip |-> NoArchive]
    /\ prev_run = [input |-> [k |-> "missing"], jsonl |-> NoFile,
                   jsonl_writable |-> TRUE]

InitConvert ==
    /\ MainIdle
    /\ track_obj \in TrackObjs
    /\ result = Pending
    /\ payload = None
    /\ flat = <<>>

Convert ==
    /\ result = Pending
    /\ result' = track_to_listen(track_obj)
    /\ UNCHANGED <<mainVars, track_obj, payload, flat>>

NextConvert == Convert

SpecConvert == InitConvert /\ [][NextConvert]_vars

----------------------------------------------------------------------------
(* the shape normalizer applied to one payload *)

SongA ==
    Track(Absent, PyDict("uts" :> PyStr(<<"1", "0", "0", "0">>)),
          PyStr(<<"S", "o", "n", "g", " ", "A">>),
          PyStr(<<"A", "r", "t", "i", "s", "t", " ", "A">>),
          PyDict("#text" :> PyStr(<<"A", "l", "b", "u", "m", " ", "A">>)))

SongB ==
    Track(PyDict("nowplaying" :> PyStr(TextTrue)),
          PyDict("uts" :> PyStr(<<"2", "0", "0", "0">>)),
          PyStr(<<"S", "o", "n", "g", " ", "B">>),
          PyStr(<<"A", "r", "t", "i", "s", "t", " ", "B">>), Absent)

SongC ==
    Track(Absent, PyDict("uts" :> PyInt(3000)),
          PyStr(<<"a", "\"", "\\", "\n">>), PyDict("#text" :> PyInt(7)),
          PyStr(<<>>))

TrackValues ==
    { Absent, None, SongA, SongB, PyDict(<<>>), PyList(<<>>),
      PyList(<<SongA>>), PyList(<<SongB>>), PyList(<<SongA, SongB>>),
      PyList(<<SongC, PyInt(3), PyList(<<SongA>>), None>>),
      PyStr(<<"x">>), PyInt(3) }

RecentValues ==
    { Absent, None, PyList(<<SongC>>), PyStr(<<"x">>), PyDict(<<>>) }
    \cup { PyDict("track" :> v) : v \in TrackValues \ {Absent} }

MappingPayloads ==
    { [t |-> "dict",
       m |-> [k \in Keys |-> CASE k = "recenttracks" -> r
                               [] k = "track" -> v
                               [] k = "name" -> n
                               [] OTHER -> Absent]] :
        r \in RecentValues, v \in TrackValues,
        n \in {Absent, PyStr(<<"x">>)} }

ListItems ==
    { SongA, SongB, SongC, PyList(<<>>), PyList(<<SongA>>),
      PyList(<<SongB, PyList(<<SongC>>), PyInt(3)>>), PyInt(3), None }

ListPayloads ==
    { PyList(<<>>) } \cup { PyList(<<x>>) : x \in ListItems }
    \cup { PyList(<<x, y>>) : x \in ListItems, y \in ListItems }

Payloads ==
    MappingPayloads \cup ListPayloads
    \cup { None, PyInt(7), PyStr(<<"x">>), PyBool(TRUE), PyFloat(15) }

InitFlatten ==
    /\ MainIdle
    /\ track_obj = PyDict(<<>>)
    /\ result = Pending
    /\ payload \in Payloads
    /\ flat = <<Pending>>

Flatten ==
    /\ flat = <<Pending>>
    /\ flat' = flatten_tracks(payload)
    /\ UNCHANGED <<mainVars, track_obj, result, payload>>

NextFlatten == Flatten

SpecFlatten == InitFlatten /\ [][NextFlatten]_vars

----------------------------------------------------------------------------
(* main, run up to MaxRuns times on files that change only between runs *)

SongInf ==
    Track(Absent, PyDict("uts" :> PyInf), PyStr(<<"x">>), PyStr(<<"y">>),
          Absent)

SongSurrogate ==
    Track(Absent, PyDict("uts" :> PyStr(<<"5">>)), PyStr(<<Surrogate>>),
          PyStr(<<"y">>), Absent)

SongD ==
    Track(PyDict("nowplaying" :> PyStr(<<"f", "a", "l", "s", "e">>)),
          PyDict("uts" :> PyFloat(0 - 19)), PyInt(0),
          PyDict("#text" :> PyStr(<<"b">>)), PyStr(<<"c">>))

InputPayloads ==
    { PyDict("recenttracks" :> PyDict("track" :> PyList(<<SongA, SongB>>))),
      PyDict("track" :> SongA),
      PyList(<<SongD, SongA>>),
      PyList(<<SongA, SongD>>),
      PyList(<<PyList(<<SongC, PyList(<<SongA>>)>>), PyInt(3), SongB, SongD>>),
      PyList(<<SongA, SongInf, SongD>>),
      PyList(<<SongC, SongSurrogate, SongA>>),
      PyList(<<>>),
      SongC,
      PyInt(7) }

InputFiles ==
    { [k |-> "missing"], [k |-> "invalid"] }
    \cup { [k |-> "json", raw |-> p] : p \in InputPayloads }

Init ==
    /\ input_file \in InputFiles
    /\ jsonl_file = NoFile
    /\ zip_file = NoArchive
    /\ jsonl_writable \in BOOLEAN
    /\ zip_writable \in BOOLEAN
    /\ pc = "start"
    /\ written = <<>>
    /\ stdout = <<>>
    /\ error = "none"
    /\ runs = 1
    /\ zip_calls = 0
    /\ run_start = [jsonl |-> NoFile, zip |-> NoArchive]
    /\ prev_run = [input |-> [k |-> "missing"], jsonl |-> NoFile,
                   jsonl_writable |-> TRUE]
    /\ track_obj = PyDict(<<>>)
    /\ result = Pending
    /\ payload = None
    /\ flat = <<>>

pureVars == <<track_obj, result, payload, flat>>

\* written = write_listens_jsonl(...); print("Listens written:", written)
WriteListensJsonl ==
    /\ pc = "start"
    /\ LET r == write_listens_jsonl(input_file, jsonl_file, jsonl_writable)
       IN  /\ jsonl_file' = r.file
           /\ pc' = AfterWrite(r.exc)
           /\ error' = r.exc
           /\ IF r.exc = "none"
              THEN /\ written' = <<r.written>>
                   /\ stdout' = Append(stdout, <<"Listens written:", " ">>
                                               \o IntText(r.written))
              ELSE UNCHANGED <<written, stdout>>
    /\ UNCHANGED <<input_file, zip_file, jsonl_writable, zip_writable, runs,
                   zip_calls, run_start, prev_run, pureVars>>

\* make_import_zip(...); print("Created:", OUTPUT_ZIP)
MakeImportZip ==
    /\ pc = "zip"
    /\ zip_calls' = zip_calls + 1
    /\ IF zip_writable
       THEN /\ zip_file' = make_import_zip(jsonl_file, zip_file)
            /\ stdout' = Append(stdout, <<"Created:", " ",
                                          "listenbrainz_import.zip">>)
            /\ pc' = "done"
            /\ UNCHANGED error
       ELSE /\ error' = "PermissionError"
            /\ pc' = "failed"
            /\ UNCHANGED <<zip_file, stdout>>
    /\ UNCHANGED <<input_file, jsonl_file, jsonl_writable, zip_writable,
                   written, runs, run_start, prev_run, pureVars>>

\* the program is started again
NewRun ==
    /\ pc \in {"done", "failed"}
    /\ runs < MaxRuns
    /\ runs' = runs + 1
    /\ pc' = "start"
    /\ written' = <<>>
    /\ stdout' = <<>>
    /\ error' = "none"
    /\ zip_calls' = 0
    /\ run_start' = [jsonl |-> jsonl_file, zip |-> zip_file]
    /\ prev_run' = [input |-> input_file, jsonl |-> jsonl_file,
                    jsonl_writable |-> jsonl_writable]
    /\ UNCHANGED <<input_file, jsonl_file, zip_file, jsonl_writable,
                   zip_writable, pureVars>>

\* between two runs the user replaces the export
EditInput ==
    /\ pc = "start"
    /\ runs > 1
    /\ input_file = prev_run.input
    /\ \E f \in InputFiles \ {input_file} : input_file' = f
    /\ UNCHANGED <<jsonl_file, zip_file, jsonl_writable, zip_writable, pc,
                   written, stdout, error, runs, zip_calls, run_start,
                   prev_run, pureVars>>

\* between two runs the permissions of the output paths change
SetPermissions ==
    /\ pc = "start"
    /\ runs > 1
    /\ \E jw \in BOOLEAN, zw \in BOOLEAN :
          /\ <<jw, zw>> # <<jsonl_writable, zip_writable>>
          /\ jsonl_writable' = jw
          /\ zip_writable' = zw
    /\ UNCHANGED <<input_file, jsonl_file, zip_file, pc, written, stdout,
                   error, runs, zip_calls, run_start, prev_run, pureVars>>

Next ==
    \/ WriteListensJsonl
    \/ MakeImportZip
    \/ NewRun
    \/ EditInput
    \/ SetPermissions

Spec == Init /\ [][Next]_vars

----------------------------------------------------------------------------
(* properties of the record converter, under SpecConvert *)

ArgAttr == DictGet(track_obj, "@attr")
ArgDate == DictGet(track_obj, "date")
ArgName == DictGet(track_obj, "name")
ArgArtist == DictGet(track_obj, "artist")
ArgAlbum == DictGet(track_obj, "album")

Converted == result # Pending

NonEmptyText(value) == value # None /\ value.s # <<>>

\* C1: a listen returned by track_to_listen has exactly the keys listened_at
\* and track_metadata; listened_at is the integer parsed from date.uts;
\* track_name and artist_name are the non-empty texts get_text extracts from
\* name and artist; release_name is present exactly when get_text of album is
\* a non-empty text, and then equals it; track_metadata has no other key.
ListenRecordShape ==
    result.k = "listen" =>
        LET l == result.listen
            md == l.track_metadata
            uts == int(DictItem(ArgDate, "uts"))
            name == get_text(ArgName)
            artist == get_text(ArgArtist)
            album == get_text(ArgAlbum)
        IN  /\ DOMAIN l = {"listened_at", "track_metadata"}
            /\ uts.ok
            /\ l.listened_at \in Int
            /\ l.listened_at = uts.v
            /\ NonEmptyText(name) /\ md.track_name = name.s
            /\ NonEmptyText(artist) /\ md.artist_name = artist.s
            /\ ("release_name" \in DOMAIN md) <=> NonEmptyText(album)
            /\ "release_name" \in DOMAIN md => md.release_name = album.s
            /\ {"track_name", "artist_name"} \subseteq DOMAIN md
            /\ DOMAIN md \subseteq {"track_name", "artist_name", "release_name"}

ListenRecordReturned ==
    /\ result.k = "listen"
    /\ result.listen.listened_at = 1000
    /\ ArgAlbum = PyDict("#text" :> PyStr(<<"A", "l", "b", "u", "m", " ", "A">>))
    /\ "release_name" \in DOMAIN result.listen.track_metadata

ClaimedNowPlaying ==
    isinstance(ArgAttr, "dict") /\ DictGet(ArgAttr, "nowplaying") = PyStr(TextTrue)

\* C2: a record whose @attr is a mapping with nowplaying equal to the text
\* "true" is skipped, whatever its date, name, artist and album are.
NowPlayingSkipped == (Converted /\ ClaimedNowPlaying) => result = Skip

\* a now-playing record that would otherwise be a listen
NowPlayingValidSkipped ==
    /\ result = Skip
    /\ ClaimedNowPlaying
    /\ ArgDate = PyDict("uts" :> PyStr(<<"1", "0", "0", "0">>))
    /\ ArgName = PyStr(<<"S", "o", "n", "g", " ", "A">>)
    /\ ArgArtist = PyStr(<<"A", "r", "t", "i", "s", "t", " ", "A">>)

\* text that int() does not accept as an integer literal
NonNumericText(value) == isinstance(value, "str") /\ ~IntOfText(value.s).ok

ClaimedNoTimestamp ==
    \/ ~isinstance(ArgDate, "dict")
    \/ ~HasKey(ArgDate, "uts")
    \/ NonNumericText(DictItem(ArgDate, "uts"))

\* C3: a record with no date mapping, with a date mapping that lacks uts, or
\* with a date.uts that is non-numeric text is skipped, whatever its name,
\* artist and album are.
NoTimestampSkipped == (Converted /\ ClaimedNoTimestamp) => result = Skip

\* "abc" as the timestamp of a record that is otherwise a listen
TextTimestampSkipped ==
    /\ result = Skip
    /\ ArgAttr = None
    /\ ArgDate = PyDict("uts" :> PyStr(<<"a", "b", "c">>))
    /\ ArgName = PyStr(<<"S", "o", "n", "g", " ", "A">>)
    /\ ArgArtist = PyStr(<<"A", "r", "t", "i", "s", "t", " ", "A">>)

\* absent, null, "", a mapping without #text, a mapping whose #text is null
\* or ""
ClaimedUnnamed(value) ==
    \/ value = None
    \/ value = PyStr(<<>>)
    \/ /\ isinstance(value, "dict")
       /\ DictGet(value, "#text") \in {None, PyStr(<<>>)}

\* C4: a record whose name or artist is absent, null, empty, a mapping
\* without #text, or a mapping whose #text is null or empty, is skipped.
UnnamedSkipped ==
    (Converted /\ (ClaimedUnnamed(ArgName) \/ ClaimedUnnamed(ArgArtist)))
        => result = Skip

\* C5: track_to_listen never raises: it ends in a listen or in a skip.
NeverRaises == result.k \in {"pending", "listen", "skip"}

----------------------------------------------------------------------------
(* properties of the shape normalizer, under SpecFlatten *)

Flattened == flat # <<Pending>>

RecentIsMapping ==
    isinstance(payload, "dict")
    /\ isinstance(DictGet(payload, "recenttracks"), "dict")

\* the track value flatten_tracks is claimed to select from a mapping payload
SelectedTrack ==
    IF RecentIsMapping
    THEN DictGet(DictItem(payload, "recenttracks"), "track")
    ELSE DictGet(payload, "track")

\* the payload with the selected track value replaced by v
WithSelectedTrack(v) ==
    IF RecentIsMapping
    THEN [payload EXCEPT !.m["recenttracks"].m["track"] = v]
    ELSE [payload EXCEPT !.m["track"] = v]

\* C8: for a mapping payload whose selected track value (recenttracks.track
\* when recenttracks is a mapping, else the top-level track) is a single
\* mapping m, flatten_tracks returns the sequence containing only m, which
\* is also what it returns when the track value is the list [m].
SingleTrackAsList ==
    (Flattened /\ isinstance(payload, "dict")
               /\ isinstance(SelectedTrack, "dict")) =>
        /\ flat = <<SelectedTrack>>
        /\ flatten_tracks(WithSelectedTrack(PyList(<<SelectedTrack>>))) = flat

\* recenttracks.track is a single mapping and the top-level track is ignored
SingleTrackFlattened ==
    /\ Flattened
    /\ RecentIsMapping
    /\ SelectedTrack = SongA
    /\ DictGet(payload, "track") = SongB
    /\ flat = <<SongA>>

----------------------------------------------------------------------------
(* properties of main, under Spec *)

RECURSIVE SplitLines(_, _)
\* the newline-terminated lines of data, without their newlines; an
\* unterminated rest counts as a line
SplitLines(data, line) ==
    IF data = <<>> THEN (IF line = <<>> THEN <<>> ELSE <<line>>)
    ELSE IF Head(data) = "\n" THEN <<line>> \o SplitLines(Tail(data), <<>>)
    ELSE SplitLines(Tail(data), Append(line, Head(data)))

NotSkipped(t) == track_to_listen(t) # Skip

\* C6: after a run of main that completes, the archive holds exactly one
\* entry, named listens.jsonl, whose inflated content equals the content of
\* the JSONL file; an archive of an earlier run is replaced.
ArchiveHoldsJsonl ==
    pc = "done" =>
        /\ jsonl_file.exists
        /\ zip_file.exists
        /\ Len(zip_file.entries) = 1
        /\ zip_file.entries[1].arcname = "listens.jsonl"
        /\ Inflate(zip_file.entries[1].stream) = jsonl_file.data

\* a second run replaces the archive of the first by one with other content
ArchiveReplaced ==
    /\ pc = "done"
    /\ runs = 2
    /\ run_start.zip.exists
    /\ jsonl_file.data # <<>>
    /\ Inflate(run_start.zip.entries[1].stream) # jsonl_file.data
    /\ Len(zip_file.entries) = 1

\* write_listens_jsonl got as far as opening the output file
OutputOpened ==
    pc # "start" /\ input_file.k = "json" /\ jsonl_writable

\* C7: the JSONL file holds exactly one newline-terminated line per record
\* of flatten_tracks(payload) that track_to_listen does not skip, in the
\* order of those records, and the count returned is the number of lines.
OneLinePerListen ==
    OutputOpened =>
        LET kept == SelectSeq(flatten_tracks(input_file.raw), NotSkipped)
            data == jsonl_file.data
            lines == SplitLines(data, <<>>)
        IN  /\ jsonl_file.exists
            /\ data = <<>> \/ data[Len(data)] = "\n"
            /\ Len(lines) = Len(kept)
            /\ \A i \in 1..Len(kept) :
                  /\ i <= Len(lines)
                  /\ track_to_listen(kept[i]).k = "listen"
                  /\ lines[i] = dumps(track_to_listen(kept[i]).listen)
            /\ written = <<Len(lines)>>

\* the write step of this run has ended
WriteEnded == pc \in {"zip", "done", "failed"}

\* C9: a run on the input of the previous run, with the output path as
\* writable as it was, leaves the JSONL file as the previous run left it.
RunIdempotent ==
    (WriteEnded /\ runs >= 2 /\ input_file = prev_run.input
                /\ jsonl_writable = prev_run.jsonl_writable)
        => jsonl_file = prev_run.jsonl

\* the second run rewrote two lines and the file is as it was
SecondRunSameOutput ==
    /\ pc = "done"
    /\ runs = 2
    /\ input_file = prev_run.input
    /\ written = <<2>>
    /\ jsonl_file = prev_run.jsonl
    /\ Len(SplitLines(jsonl_file.data, <<>>)) = 2

\* C10: make_import_zip is invoked only after write_listens_jsonl returned;
\* when write_listens_jsonl raises, the run ends with that error, without
\* any invocation of make_import_zip and with the archive as it was.
ZipOnlyAfterWrite ==
    /\ zip_calls > 0 => written # <<>>
    /\ pc = "zip" => (written # <<>> /\ error = "none")
    /\ (WriteEnded /\ written = <<>>) =>
          /\ pc = "failed"
          /\ error # "none"
          /\ zip_calls = 0
          /\ zip_file = run_start.zip

\* a run fails in the write step while an archive of an earlier run exists
WriteFailedArchiveKept ==
    /\ pc = "failed"
    /\ error = "OverflowError"
    /\ written = <<>>
    /\ run_start.zip.exists
    /\ zip_file = run_start.zip

====
